---- MODULE Spec2Model ----
(***************************************************************************)
(* Creator poll of wheredhego: poll lifecycle, ballot storage, vote        *)
(* aggregation and archival, as implemented by                             *)
(*   app/creatorpoll/mysql_routes.py + mysql_models.py  (MySQL backend),   *)
(*   scripts/csv_ballot_storage.py + integrated_creator_system.py (CSV).   *)
(*                                                                         *)
(* Time is counted in minutes from the season start of the backend.        *)
(* A ballot form is the POSTed form: one team-name field per rank.         *)
(***************************************************************************)
EXTENDS Integers, Sequences, FiniteSets, TLC

(***************************************************************************)
(* Bounds of the model.                                                    *)
(***************************************************************************)
\* rows the creator_ballots table may hold before submits are cut off
MaxBallotRows == 2
\* rows the creator_polls table may hold before poll creation is cut off
MaxPolls == 2
\* ballots the CSV file may hold before saves are cut off
MaxFileBallots == 2

(***************************************************************************)
(* Program constants.                                                      *)
(***************************************************************************)
MaxWeek == 17
SeasonYear == 2025
PointsBase == 26
\* 10 ** div_precision_increment, the server's scale of a DECIMAL quotient
AvgScale == 10 ^ 4

Users == {"u1", "u2"}
Callers == {"c1", "c2"}

MinutesPerDay == 24 * 60
MinutesPerWeek == 7 * MinutesPerDay

(***************************************************************************)
(* Team reference data (static/Teams for Polls/college_ids.csv), sorted by *)
(* name as load_cfb_teams returns it.                                      *)
(***************************************************************************)
load_cfb_teams ==
    << [id |-> "333", name |-> "Alabama", abbreviation |-> "ALA",
        display_name |-> "Alabama (ALA)", conference |-> "SEC"],
       [id |-> "68", name |-> "Boise State", abbreviation |-> "BSU",
        display_name |-> "Boise State (BSU)", conference |-> "Mountain West"] >>

\* number of rank fields of a ballot form: the program has rank_1 .. rank_25,
\* here a ballot has room for every team of the reference data
NumRanks == Len(load_cfb_teams)

\* what a voter may type into one rank field: nothing, a school name, or a
\* name that is in no row of the reference data
UnknownName == "Nowhere U"
InputNames == {""} \cup {load_cfb_teams[i].name : i \in 1..Len(load_cfb_teams)}
                   \cup {UnknownName}
StoredNames == InputNames \ {""}

Forms == [1..NumRanks -> InputNames]

Min(a, b) == IF a <= b THEN a ELSE b
Max(a, b) == IF a >= b THEN a ELSE b

(***************************************************************************)
(* Schedule resolver, mysql_routes.py.                                     *)
(***************************************************************************)
get_season_start_datetime == 0

get_current_season(t) ==
    IF t >= get_season_start_datetime THEN SeasonYear ELSE SeasonYear - 1

\* the week counted from 0: the + 1 of week_number left out
WeekFromZero(t) ==
    IF t < get_season_start_datetime THEN 0
    ELSE Min(((t - get_season_start_datetime) \div MinutesPerDay) \div 7, MaxWeek)

get_current_week(t) ==
    IF t < get_season_start_datetime THEN 0
    ELSE LET days_since_start == (t - get_season_start_datetime) \div MinutesPerDay
             week_number == (days_since_start \div 7) + 1
         IN  Min(week_number, MaxWeek)

get_poll_start_end_times(week_number, season_year) ==
    LET week_start == get_season_start_datetime + (week_number - 1) * MinutesPerWeek
        week_end == week_start + 6 * MinutesPerDay + 8 * 60 + 59
    IN  [start |-> week_start, end |-> week_end]

(***************************************************************************)
(* State.                                                                  *)
(*   now       wall clock, minutes from the season start                   *)
(*   polls     table creator_polls, row i has id i (AUTO_INCREMENT); a     *)
(*             NULL archived_at is {}, a set one {t}                       *)
(*   ballots   table creator_ballots, row i has id i                       *)
(*   votes     table creator_votes (rows of one voter differ in rank)      *)
(*   archives  table poll_archives, in insertion order                     *)
(*   tieOrder  the order in which ORDER BY avg_rank returns rows of equal  *)
(*             avg_rank: SQL leaves it open; the server settles on one,    *)
(*             any one, and the same stored rows read twice come back in   *)
(*             the same order                                              *)
(*   probeRaises  whether cursor.fetchone()[0] in get_poll_results raises: *)
(*             the cursor is a dictionary cursor, and a row that is a dict *)
(*             has no key 0; the driver decides, the same way every time   *)
(*   ens       each web request running ensure_current_poll_exists         *)
(*   voteStatus  what the last POST /vote answered                         *)
(*   submitted   history: the ballot_data of the last accepted submit of   *)
(*             each (poll, voter)                                          *)
(*   runs      history: the poll archive_poll ran on last and how often in *)
(*             a row (at most 2) with no other write in between; poll 0    *)
(*             when the last write was not an archival                     *)
(*   csvFile   the data rows of csv_ballots/ballots_2025_week_3.csv, in    *)
(*             file order (no file, or a header alone: no rows)            *)
(*   csvPc     each creator's POST /creator/vote: where it is inside       *)
(*             save_ballot, its rows_to_keep and its ballot_data           *)
(*   csvSaved  history: the ballot_data of the last save_ballot each       *)
(*             creator completed                                           *)
(***************************************************************************)
VARIABLES now, polls, ballots, votes, archives, tieOrder, probeRaises, ens,
          voteStatus, submitted, runs, arc, csvFile, csvPc, csvSaved

csvVars == <<csvFile, csvPc, csvSaved>>

sqlVars == <<now, polls, ballots, votes, archives, tieOrder, probeRaises, ens,
             voteStatus, submitted, runs, arc>>

vars == <<sqlVars, csvVars>>

PollIds == 1..MaxPolls

(***************************************************************************)
(* Poll store, mysql_models.py class CreatorPoll.                          *)
(***************************************************************************)
create_poll(ps, week_number, season_year, start_date, end_date, t) ==
    Append(ps, [id |-> Len(ps) + 1,
                week_number |-> week_number,
                season_year |-> season_year,
                start_date |-> start_date,
                end_date |-> end_date,
                is_active |-> TRUE,
                is_archived |-> FALSE,
                archived_at |-> {},
                created_at |-> t])

\* the ids fetchone() may return for
\*   WHERE is_active AND start_date <= NOW() AND end_date >= NOW()
\*   ORDER BY created_at DESC LIMIT 1          (0: no row)
get_current_poll(ps, t) ==
    LET open == {i \in 1..Len(ps) : /\ ps[i].is_active
                                    /\ ps[i].start_date <= t
                                    /\ ps[i].end_date >= t}
    IN  IF open = {} THEN {0}
        ELSE {i \in open : \A j \in open : ps[j].created_at <= ps[i].created_at}

\* fetchone() of SELECT * FROM creator_polls WHERE id = poll_id: <<row>>, or
\* <<>> for None
get_poll_by_id(ps, poll_id) ==
    IF poll_id \in 1..Len(ps) THEN <<ps[poll_id]>> ELSE <<>>

(***************************************************************************)
(* POST /vote/<poll_id>, mysql_routes.py vote.                             *)
(***************************************************************************)
\* next(t for t in teams if name/display_name/abbreviation == team_name):
\* the index of the first such row, 0 for None
FindTeam(team_name) ==
    LET hits == {i \in 1..Len(load_cfb_teams) :
                    \/ load_cfb_teams[i].name = team_name
                    \/ load_cfb_teams[i].display_name = team_name
                    \/ load_cfb_teams[i].abbreviation = team_name}
    IN  IF hits = {} THEN 0 ELSE CHOOSE i \in hits : \A j \in hits : i <= j

BallotItem(rank, team_name) ==
    LET i == FindTeam(team_name)
    IN  [rank |-> rank,
         team_name |-> team_name,
         team_id |-> IF i # 0 THEN load_cfb_teams[i].id ELSE "",
         team_conference |-> IF i # 0 THEN load_cfb_teams[i].conference ELSE ""]

\* for rank in range(1, 26): if team_name: ballot_data.append(...)
RECURSIVE CollectFrom(_, _)
CollectFrom(form, rank) ==
    IF rank > NumRanks THEN <<>>
    ELSE IF form[rank] # ""
         THEN <<BallotItem(rank, form[rank])>> \o CollectFrom(form, rank + 1)
         ELSE CollectFrom(form, rank + 1)

CollectBallot(form) == CollectFrom(form, 1)

\* a length check that lets a ballot with one rank missing through
BallotIncompleteByTwo(ballot_data) == Len(ballot_data) < NumRanks - 1

\* if len(ballot_data) < 25: flash('Please rank all 25 teams ...')
BallotIncomplete(ballot_data) == Len(ballot_data) < NumRanks

(***************************************************************************)
(* Ballot store, mysql_models.py class CreatorBallot.                      *)
(***************************************************************************)
\* the unique indexes of creator_ballots: PRIMARY KEY (id) and nothing else;
\* idx_poll_creator and idx_poll_user are plain indexes
BallotDuplicateKey(old, new) == old.id = new.id

\* INSERT INTO creator_ballots (poll_id, user_id, ballot_data) ...
\* ON DUPLICATE KEY UPDATE ballot_data = VALUES(ballot_data)
InsertBallot(bs, poll_id, user_id, ballot_data) ==
    LET new == [id |-> Len(bs) + 1, poll_id |-> poll_id, user_id |-> user_id,
                ballot_data |-> ballot_data]
        dup == {i \in 1..Len(bs) : BallotDuplicateKey(bs[i], new)}
    IN  IF dup = {} THEN Append(bs, new)
        ELSE [i \in 1..Len(bs) |->
                IF i \in dup THEN [bs[i] EXCEPT !.ballot_data = ballot_data]
                ELSE bs[i]]

VoteRowsOf(poll_id, user_id, ballot_data) ==
    {[poll_id |-> poll_id, user_id |-> user_id,
      team_name |-> ballot_data[k].team_name,
      team_conference |-> ballot_data[k].team_conference,
      team_id |-> ballot_data[k].team_id,
      rank_position |-> ballot_data[k].rank] : k \in 1..Len(ballot_data)}

\* the INSERTs without the DELETE before them
InsertVotesOnly(vs, poll_id, user_id, ballot_data) ==
    vs \cup VoteRowsOf(poll_id, user_id, ballot_data)

\* DELETE FROM creator_votes WHERE poll_id = .. AND user_id = ..; then one
\* INSERT per item of ballot_data
ReplaceVotes(vs, poll_id, user_id, ballot_data) ==
    {v \in vs : ~(v.poll_id = poll_id /\ v.user_id = user_id)}
        \cup VoteRowsOf(poll_id, user_id, ballot_data)

\* the ballot_data fetchone() may return for
\*   SELECT ballot_data FROM creator_ballots WHERE poll_id = .. AND user_id = ..
\* (no ORDER BY: any matching row); {<<>>} for None
get_creator_ballot(bs, poll_id, user_id) ==
    LET rows == {i \in 1..Len(bs) : bs[i].poll_id = poll_id /\ bs[i].user_id = user_id}
    IN  IF rows = {} THEN {<<>>} ELSE {bs[i].ballot_data : i \in rows}

\* SELECT COUNT(all) FROM creator_ballots WHERE poll_id = ..
get_poll_ballot_count(bs, poll_id) ==
    Cardinality({i \in 1..Len(bs) : bs[i].poll_id = poll_id})

(***************************************************************************)
(* Aggregation, mysql_models.py CreatorPoll.get_poll_results:              *)
(*   SELECT team_name, COUNT(all) AS vote_count, AVG(rank_position) AS     *)
(*   avg_rank FROM creator_votes WHERE poll_id = .. GROUP BY team_name     *)
(*   ORDER BY avg_rank ASC                                                 *)
(* AVG of an INT column is a DECIMAL of four decimal places, rounded half  *)
(* up; avg_rank is kept in ten-thousandths.                                *)
(***************************************************************************)
RECURSIVE SumRanks(_)
SumRanks(rows) ==
    IF rows = {} THEN 0
    ELSE LET v == CHOOSE x \in rows : TRUE
         IN  v.rank_position + SumRanks(rows \ {v})

\* AVG(rank_position) of a non-empty group
Avg(rows) ==
    (2 * AvgScale * SumRanks(rows) + Cardinality(rows)) \div (2 * Cardinality(rows))

TeamGroup(vs, poll_id, team_name) ==
    LET rows == {v \in vs : v.poll_id = poll_id /\ v.team_name = team_name}
    IN  [team_name |-> team_name,
         vote_count |-> Cardinality(rows),
         avg_rank |-> Avg(rows)]

PosIn(order, team_name) == CHOOSE i \in 1..Len(order) : order[i] = team_name

\* row g comes before row h in the result
RowBefore(g, h, order) ==
    \/ g.avg_rank < h.avg_rank
    \/ /\ g.avg_rank = h.avg_rank
       /\ PosIn(order, g.team_name) < PosIn(order, h.team_name)

SelectResults(vs, poll_id, order) ==
    LET names == {v.team_name : v \in {x \in vs : x.poll_id = poll_id}}
        groups == {TeamGroup(vs, poll_id, n) : n \in names}
    IN  [i \in 1..Cardinality(groups) |->
            CHOOSE g \in groups :
                Cardinality({h \in groups : RowBefore(h, g, order)}) = i - 1]

\* has_user_id_column = cursor.fetchone()[0] > 0, then the SELECT;
\* except Exception: results = []
get_poll_results(vs, poll_id, order, raises) ==
    IF raises THEN <<>> ELSE SelectResults(vs, poll_id, order)

\* the orders the server may settle on for rows of equal avg_rank
TieOrders ==
    {o \in [1..Cardinality(StoredNames) -> StoredNames] :
        \A i, j \in 1..Cardinality(StoredNames) : o[i] = o[j] => i = j}

(***************************************************************************)
(* Archive manager, mysql_models.py CreatorPoll.archive_poll.              *)
(***************************************************************************)
\* max(26 - avg_rank, 0), in ten-thousandths
Points(avg_rank) == Max(PointsBase * AvgScale - avg_rank, 0)

\* the archived list numbered from 0, as enumerate(results) would
FinalRankingsFromZero(results) ==
    [rank \in 1..Len(results) |->
        [rank |-> rank - 1,
         team_name |-> results[rank].team_name,
         vote_count |-> results[rank].vote_count,
         avg_rank |-> results[rank].avg_rank,
         points |-> Points(results[rank].avg_rank)]]

FinalRankings(results) ==
    [rank \in 1..Len(results) |->
        [rank |-> rank,
         team_name |-> results[rank].team_name,
         vote_count |-> results[rank].vote_count,
         avg_rank |-> results[rank].avg_rank,
         points |-> Points(results[rank].avg_rank)]]

\* poll_archives without the UNIQUE on poll_id
ArchivePrimaryKeyOnly(old, new) == old.id = new.id

\* the unique indexes of poll_archives: PRIMARY KEY (id), UNIQUE (poll_id)
ArchiveDuplicateKey(old, new) == old.id = new.id \/ old.poll_id = new.poll_id

\* INSERT INTO poll_archives (...) ON DUPLICATE KEY UPDATE
\*   final_rankings = VALUES(final_rankings), total_ballots = VALUES(total_ballots)
InsertArchive(as, poll, final_rankings, total_ballots) ==
    LET new == [id |-> Len(as) + 1, poll_id |-> poll.id,
                final_rankings |-> final_rankings,
                total_ballots |-> total_ballots,
                season_year |-> poll.season_year,
                week_number |-> poll.week_number]
        dup == {i \in 1..Len(as) : ArchiveDuplicateKey(as[i], new)}
    IN  IF dup = {} THEN Append(as, new)
        ELSE [i \in 1..Len(as) |->
                IF i \in dup
                THEN [as[i] EXCEPT !.final_rankings = final_rankings,
                                   !.total_ballots = total_ballots]
                ELSE as[i]]

\* the UPDATE without is_active = FALSE
MarkArchivedOnly(ps, poll_id, t) ==
    [ps EXCEPT ![poll_id].is_archived = TRUE,
               ![poll_id].archived_at = {t}]

\* the UPDATE without is_archived = TRUE
MarkInactiveOnly(ps, poll_id, t) ==
    [ps EXCEPT ![poll_id].archived_at = {t},
               ![poll_id].is_active = FALSE]

\* UPDATE creator_polls SET is_archived = TRUE, archived_at = NOW(),
\*   is_active = FALSE WHERE id = ..
MarkArchived(ps, poll_id, t) ==
    [ps EXCEPT ![poll_id].is_archived = TRUE,
               ![poll_id].archived_at = {t},
               ![poll_id].is_active = FALSE]

\* archive_poll(poll_id) on the tables: the tables after its commit
\* (unchanged when the poll does not exist and it returns False)
archive_poll(db, poll_id, t) ==
    IF get_poll_by_id(db.polls, poll_id) = <<>> THEN db
    ELSE LET poll == get_poll_by_id(db.polls, poll_id)[1]
             results == get_poll_results(db.votes, poll_id, db.order, db.raises)
             total_ballots == get_poll_ballot_count(db.ballots, poll_id)
         IN  [db EXCEPT
                !.archives = InsertArchive(db.archives, poll,
                                           FinalRankings(results), total_ballots),
                !.polls = MarkArchived(db.polls, poll_id, t)]

\* for poll in completed_polls: creator_poll_model.archive_poll(poll['id'])
RECURSIVE ArchiveEach(_, _, _)
ArchiveEach(db, ids, t) ==
    IF ids = {} THEN db
    ELSE LET first == CHOOSE i \in ids : \A j \in ids : i <= j
         IN  ArchiveEach(archive_poll(db, first, t), ids \ {first}, t)

\* SELECT id FROM creator_polls
\*   WHERE end_date < NOW() AND is_archived = FALSE AND id != current
CompletedPolls(ps, current, t) ==
    {i \in 1..Len(ps) : ps[i].end_date < t /\ ~ps[i].is_archived /\ i # current}

ArchiveRows(as, poll_id) == {i \in 1..Len(as) : as[i].poll_id = poll_id}

\* GET /admin/archive_polls on the tables when get_current_poll() returned
\* current (0 for None): if current_poll: ... for poll in completed_polls
archive_polls(db, current, t) ==
    IF current = 0 THEN db
    ELSE ArchiveEach(db, CompletedPolls(db.polls, current, t), t)

(***************************************************************************)
(* Week-to-week movement, mysql_models.py get_previous_week_poll and       *)
(* get_poll_results_with_movement.  A value that may be None is a set of   *)
(* at most one element.                                                    *)
(***************************************************************************)
\* week 1: ... WHERE season_year = season - 1 AND is_archived = TRUE
\*             ORDER BY week_number DESC LIMIT 1
\* else:   ... WHERE season_year = season AND week_number = week - 1 LIMIT 1
\* the ids the query may return, none when fetchone() is None
get_previous_week_poll(ps, current_week, current_season) ==
    IF current_week = 1
    THEN LET last == {i \in 1..Len(ps) : /\ ps[i].season_year = current_season - 1
                                         /\ ps[i].is_archived}
         IN  {i \in last : \A j \in last : ps[j].week_number <= ps[i].week_number}
    ELSE {i \in 1..Len(ps) : /\ ps[i].season_year = current_season
                             /\ ps[i].week_number = current_week - 1}

\* previous_rankings always calculated live, the archive row never read
PreviousRankingsLive(db, previous_poll) ==
    LET previous_results ==
            get_poll_results(db.votes, previous_poll, db.order, db.raises)
    IN  [n \in {previous_results[k].team_name : k \in 1..Len(previous_results)} |->
            CHOOSE k \in 1..Len(previous_results) : previous_results[k].team_name = n]

\* previous_rankings: team_name -> rank, from the archive row of the
\* previous poll when there is one, else from its live results
PreviousRankings(db, previous_poll) ==
    LET rows == ArchiveRows(db.archives, previous_poll)
    IN  IF rows # {}
        THEN LET archived_rankings ==
                     db.archives[CHOOSE i \in rows : TRUE].final_rankings
             IN  [n \in {archived_rankings[k].team_name :
                            k \in 1..Len(archived_rankings)} |->
                     archived_rankings[CHOOSE k \in 1..Len(archived_rankings) :
                         /\ archived_rankings[k].team_name = n
                         /\ \A l \in 1..Len(archived_rankings) :
                                archived_rankings[l].team_name = n => l <= k].rank]
        ELSE LET previous_results ==
                     get_poll_results(db.votes, previous_poll, db.order, db.raises)
             IN  [n \in {previous_results[k].team_name :
                            k \in 1..Len(previous_results)} |->
                     CHOOSE k \in 1..Len(previous_results) :
                         previous_results[k].team_name = n]

\* movement = i - previous_rank
MovementReversed(i, previous_rank) == i - previous_rank

\* movement = previous_rank - i
Movement(i, previous_rank) == previous_rank - i

MovementType(movement) ==
    IF movement > 0 THEN "up" ELSE IF movement < 0 THEN "down" ELSE "same"

\* the enhanced results when get_previous_week_poll returned previous_poll
\* (0 for None)
EnhancedResults(db, poll_id, previous_poll) ==
    LET current_results == get_poll_results(db.votes, poll_id, db.order, db.raises)
        previous_rankings == IF previous_poll = 0 THEN <<>>
                             ELSE PreviousRankings(db, previous_poll)
    IN  [i \in 1..Len(current_results) |->
            LET result == current_results[i]
                known == result.team_name \in DOMAIN previous_rankings
            IN  [rank |-> i,
                 team_name |-> result.team_name,
                 vote_count |-> result.vote_count,
                 avg_rank |-> result.avg_rank,
                 points |-> Points(result.avg_rank),
                 previous_rank |-> IF known THEN {previous_rankings[result.team_name]}
                                   ELSE {},
                 movement |-> IF known
                              THEN {Movement(i, previous_rankings[result.team_name])}
                              ELSE {},
                 movement_type |-> IF known
                     THEN MovementType(Movement(i, previous_rankings[result.team_name]))
                     ELSE "new"]]

\* the ids get_previous_week_poll may return for the poll, {0} for None
PreviousOf(ps, poll_id) ==
    LET found == get_previous_week_poll(ps, ps[poll_id].week_number,
                                        ps[poll_id].season_year)
    IN  IF found = {} THEN {0} ELSE found

\* the lists get_poll_results_with_movement(poll_id) may return
get_poll_results_with_movement(db, poll_id) ==
    IF get_poll_by_id(db.polls, poll_id) = <<>> THEN {<<>>}
    ELSE {EnhancedResults(db, poll_id, previous_poll) :
            previous_poll \in PreviousOf(db.polls, poll_id)}

(***************************************************************************)
(* Initial state: empty tables, a day before the season starts.            *)
(***************************************************************************)
NoRun == [poll |-> 0, n |-> 0]

CsvIdle == [pc |-> "idle", rows_to_keep |-> <<>>, ballot_data |-> <<>>]

Idle(result) == [pc |-> "idle", week |-> 0, season |-> 0, result |-> result]

(***************************************************************************)
(* GET /results/<poll_id>, mysql_routes.py results.                        *)
(***************************************************************************)
\* enhanced_results[:25] and enhanced_results[25:]: the page shows as many
\* ranked entries as a ballot has ranks
TopRanked == NumRanks

\* logo_url = f"/creatorpoll/logo/{team_id}.png" of the row whose name is
\* team_name, '' when there is none
LogoUrl(team_name) ==
    LET hits == {i \in 1..Len(load_cfb_teams) : load_cfb_teams[i].name = team_name}
    IN  IF hits = {} THEN <<>>
        ELSE <<"/creatorpoll/logo/",
               load_cfb_teams[CHOOSE i \in hits : \A j \in hits : i <= j].id, ".png">>

\* what the route hands to the template when the poll exists and
\* get_previous_week_poll returned previous_poll (0 for None)
results(db, poll_id, previous_poll) ==
    LET enhanced_results == EnhancedResults(db, poll_id, previous_poll)
        top == Min(TopRanked, Len(enhanced_results))
    IN  [rankings |->
            [i \in 1..top |->
                [rank |-> enhanced_results[i].rank,
                 team_name |-> enhanced_results[i].team_name,
                 vote_count |-> enhanced_results[i].vote_count,
                 avg_rank |-> enhanced_results[i].avg_rank,
                 points |-> enhanced_results[i].points,
                 previous_rank |-> enhanced_results[i].previous_rank,
                 movement |-> enhanced_results[i].movement,
                 movement_type |-> enhanced_results[i].movement_type,
                 logo_url |-> LogoUrl(enhanced_results[i].team_name)]],
         others_receiving_votes |->
            [i \in 1..(Len(enhanced_results) - top) |->
                [team_name |-> enhanced_results[top + i].team_name,
                 vote_count |-> enhanced_results[top + i].vote_count,
                 logo_url |-> LogoUrl(enhanced_results[top + i].team_name)]],
         total_ballots |-> get_poll_ballot_count(db.ballots, poll_id)]

(***************************************************************************)
(* What a caller gets when the storage fails.  A failure is met either in  *)
(* get_connection(), which every method calls before any try, or in a     *)
(* statement run on the cursor.                                            *)
(***************************************************************************)
StorageFailures == {"connect", "statement"}

\* get_poll_results(poll_id) under a failure ("none" for no failure): the
\* statements are inside try ... except Exception: results = []
GetPollResultsOutcome(db, poll_id, failure) ==
    IF failure = "connect" THEN [raised |-> TRUE, value |-> <<>>]
    ELSE IF failure = "statement" THEN [raised |-> FALSE, value |-> <<>>]
    ELSE [raised |-> FALSE,
          value |-> get_poll_results(db.votes, poll_id, db.order, db.raises)]

\* get_poll_ballot_count(poll_id) under a failure: no try in the method
GetPollBallotCountOutcome(db, poll_id, failure) ==
    IF failure # "none" THEN [raised |-> TRUE, value |-> 0]
    ELSE [raised |-> FALSE, value |-> get_poll_ballot_count(db.ballots, poll_id)]

\* the results and total_ballots of GET / for the current poll:
\* except Exception: results = []; total_ballots = 0
HomeOutcome(db, poll_id, failure) ==
    LET found == GetPollResultsOutcome(db, poll_id, failure)
        counted == GetPollBallotCountOutcome(db, poll_id, failure)
    IN  IF found.raised \/ counted.raised
        THEN [raised |-> FALSE, results |-> <<>>, total_ballots |-> 0]
        ELSE [raised |-> FALSE, results |-> found.value,
              total_ballots |-> counted.value]

\* an archive_poll call: where it stands, the poll, what it has read, whether
\* an exception was raised inside it, and what the last call returned
ArchiveIdle(result, error) ==
    [pc |-> "idle", poll |-> 0, final_rankings |-> <<>>, total_ballots |-> 0,
     error |-> error, result |-> result]

InitWith(orders) ==
    /\ now = get_season_start_datetime - MinutesPerDay
    /\ polls = <<>>
    /\ ballots = <<>>
    /\ votes = {}
    /\ archives = <<>>
    /\ tieOrder \in orders
    /\ probeRaises \in BOOLEAN
    /\ ens = [c \in Callers |-> Idle(0)]
    /\ voteStatus = "none"
    /\ submitted = [k \in PollIds \X Users |-> <<>>]
    /\ runs = NoRun
    /\ arc = [c \in Callers |-> ArchiveIdle("none", FALSE)]
    /\ csvFile = <<>>
    /\ csvPc = [u \in Users |-> CsvIdle]
    /\ csvSaved = [u \in Users |-> <<>>]

\* the tables as the operations read them
Db == [polls |-> polls, archives |-> archives, ballots |-> ballots,
       votes |-> votes, order |-> tieOrder, raises |-> probeRaises]

\* the clock moves on by d minutes, up to the horizon of the specification
Tick(d, horizon) ==
    /\ UNCHANGED <<csvVars, arc>>
    /\ now + d <= get_season_start_datetime + horizon
    /\ now' = now + d
    /\ UNCHANGED <<polls, ballots, votes, archives, tieOrder, probeRaises, ens, voteStatus,
                   submitted, runs>>

(***************************************************************************)
(* ensure_current_poll_exists, mysql_routes.py.  EnsureCheck and           *)
(* EnsureCreate are its two database round trips, run by concurrent web    *)
(* requests; EnsureCurrentPollExists is one request running alone.         *)
(***************************************************************************)
PollMatches(ps, cur, week, season) ==
    /\ cur # 0
    /\ ps[cur].week_number = week
    /\ ps[cur].season_year = season

Creating == {c \in Callers : ens[c].pc = "create"}

EnsureCheck(c) ==
    /\ UNCHANGED <<csvVars, arc>>
    /\ ens[c].pc = "idle"
    /\ LET current_week == get_current_week(now)
           current_season == get_current_season(now)
       IN  IF current_week <= 0
           THEN ens' = [ens EXCEPT ![c] = Idle(0)]
           ELSE \E cur \in get_current_poll(polls, now) :
                  IF PollMatches(polls, cur, current_week, current_season)
                  THEN ens' = [ens EXCEPT ![c] = Idle(cur)]
                  ELSE /\ Len(polls) + Cardinality(Creating) < MaxPolls
                       /\ ens' = [ens EXCEPT ![c] =
                                    [pc |-> "create", week |-> current_week,
                                     season |-> current_season, result |-> 0]]
    /\ UNCHANGED <<now, polls, ballots, votes, archives, tieOrder, probeRaises, voteStatus,
                   submitted, runs>>

EnsureCreate(c) ==
    /\ UNCHANGED <<csvVars, arc>>
    /\ ens[c].pc = "create"
    /\ LET w == get_poll_start_end_times(ens[c].week, ens[c].season)
       IN  polls' = create_poll(polls, ens[c].week, ens[c].season,
                                w.start, w.end, now)
    /\ ens' = [ens EXCEPT ![c] = Idle(Len(polls) + 1)]
    /\ UNCHANGED <<now, ballots, votes, archives, tieOrder, probeRaises, voteStatus,
                   submitted, runs>>

EnsureCurrentPollExists(c) ==
    /\ UNCHANGED <<csvVars, arc>>
    /\ ens[c].pc = "idle"
    /\ LET current_week == get_current_week(now)
           current_season == get_current_season(now)
           w == get_poll_start_end_times(current_week, current_season)
       IN  IF current_week <= 0
           THEN ens' = [ens EXCEPT ![c] = Idle(0)] /\ UNCHANGED polls
           ELSE \E cur \in get_current_poll(polls, now) :
                  IF PollMatches(polls, cur, current_week, current_season)
                  THEN ens' = [ens EXCEPT ![c] = Idle(cur)] /\ UNCHANGED polls
                  ELSE /\ Len(polls) < MaxPolls
                       /\ polls' = create_poll(polls, current_week, current_season,
                                               w.start, w.end, now)
                       /\ ens' = [ens EXCEPT ![c] = Idle(Len(polls) + 1)]
    /\ UNCHANGED <<now, ballots, votes, archives, tieOrder, probeRaises, voteStatus,
                   submitted, runs>>

(***************************************************************************)
(* POST /vote/<poll_id> by a logged-in user.                               *)
(***************************************************************************)
\* the route with the poll lock: no ballot for a poll that is archived or
\* not active
VoteUnlessLocked(db, u, poll_id, form) ==
    IF get_poll_by_id(db.polls, poll_id) = <<>>
    THEN [status |-> "not_found", ballots |-> db.ballots, votes |-> db.votes]
    ELSE LET ballot_data == CollectBallot(form)
             poll == get_poll_by_id(db.polls, poll_id)[1]
         IN  IF BallotIncomplete(ballot_data) \/ poll.is_archived \/ ~poll.is_active
             THEN [status |-> "invalid", ballots |-> db.ballots, votes |-> db.votes]
             ELSE [status |-> "ok",
                   ballots |-> InsertBallot(db.ballots, poll_id, u, ballot_data),
                   votes |-> ReplaceVotes(db.votes, poll_id, u, ballot_data)]

\* the route on the tables: what it answers and the creator_ballots and
\* creator_votes it leaves (submit_ballot commits both or neither)
vote(db, u, poll_id, form) ==
    IF get_poll_by_id(db.polls, poll_id) = <<>>
    THEN [status |-> "not_found", ballots |-> db.ballots, votes |-> db.votes]
    ELSE LET ballot_data == CollectBallot(form)
         IN  IF BallotIncomplete(ballot_data)
             THEN [status |-> "invalid", ballots |-> db.ballots, votes |-> db.votes]
             ELSE [status |-> "ok",
                   ballots |-> InsertBallot(db.ballots, poll_id, u, ballot_data),
                   votes |-> ReplaceVotes(db.votes, poll_id, u, ballot_data)]

Vote(u, poll_id, form) ==
    /\ UNCHANGED <<csvVars, arc>>
    /\ UNCHANGED <<now, polls, archives, tieOrder, probeRaises, ens>>
    /\ LET answer == vote(Db, u, poll_id, form)
       IN  /\ answer.status = "ok" => Len(ballots) < MaxBallotRows
           /\ voteStatus' = answer.status
           /\ ballots' = answer.ballots
           /\ votes' = answer.votes
           /\ IF answer.status = "ok"
              THEN /\ submitted' = [submitted EXCEPT ![<<poll_id, u>>] =
                                        CollectBallot(form)]
                   /\ runs' = NoRun
              ELSE UNCHANGED <<submitted, runs>>

\* an exception inside submit_ballot: conn.rollback(), raise; the route
\* flashes 'Error submitting ballot'
VoteStorageError(u, poll_id, form) ==
    /\ UNCHANGED <<csvVars, arc>>
    /\ get_poll_by_id(polls, poll_id) # <<>>
    /\ ~BallotIncomplete(CollectBallot(form))
    /\ voteStatus' = "error"
    /\ UNCHANGED <<now, polls, ballots, votes, archives, tieOrder, probeRaises, ens,
                   submitted, runs>>

(***************************************************************************)
(* Archival: archive_poll called on one poll, and the sweep of             *)
(* GET /admin/archive_polls.                                               *)
(***************************************************************************)
CountRun(r, poll_id) ==
    IF r.poll = poll_id THEN [r EXCEPT !.n = Min(r.n + 1, 2)]
    ELSE [poll |-> poll_id, n |-> 1]

ArchivePoll(poll_id) ==
    LET db == archive_poll(Db, poll_id, now)
    IN  /\ polls' = db.polls
        /\ archives' = db.archives
        /\ runs' = IF poll_id \in 1..Len(polls) THEN CountRun(runs, poll_id) ELSE runs
        /\ UNCHANGED <<now, ballots, votes, tieOrder, probeRaises, ens, voteStatus, submitted>>
        /\ UNCHANGED <<csvVars, arc>>

ArchivePolls ==
    \E cur \in get_current_poll(polls, now) :
        LET completed == IF cur = 0 THEN {} ELSE CompletedPolls(polls, cur, now)
            db == ArchiveEach(Db, completed, now)
        IN  /\ polls' = db.polls
            /\ archives' = db.archives
            /\ runs' = IF completed = {} THEN runs ELSE NoRun
            /\ UNCHANGED <<now, ballots, votes, tieOrder, probeRaises, ens, voteStatus, submitted>>
            /\ UNCHANGED <<csvVars, arc>>
        /\ UNCHANGED <<csvVars, arc>>

(***************************************************************************)
(* scripts/mysql_creator_migration.py migrate_existing_data: the polls of  *)
(* the SQLite application, of this season or the one before, are copied    *)
(* into creator_polls in the order of their ids.  Their window is the one  *)
(* of routes.py get_poll_start_end_times: four days from the week's start. *)
(***************************************************************************)
SqlitePollTimes(week_number, season_year) ==
    LET poll_start == get_season_start_datetime + (week_number - 1) * MinutesPerWeek
    IN  [start |-> poll_start, end |-> poll_start + 4 * MinutesPerDay]

MigratedWeeks == {1, 2, MaxWeek}

MigratedSeasons == {SeasonYear - 1, SeasonYear}

MigratePoll(week_number, season_year) ==
    /\ Len(polls) < MaxPolls
    /\ LET w == SqlitePollTimes(week_number, season_year)
       IN  polls' = create_poll(polls, week_number, season_year, w.start, w.end, now)
    /\ UNCHANGED <<now, ballots, votes, archives, tieOrder, probeRaises, ens,
                   voteStatus, submitted, runs, arc>>
    /\ UNCHANGED csvVars

(***************************************************************************)
(* archive_poll step by step, as concurrent requests run it: the reads     *)
(* (get_poll_by_id and get_poll_results on connections of their own, then  *)
(* the COUNT of creator_ballots), and the commit that makes the upsert     *)
(* into poll_archives and the UPDATE of creator_polls visible together.    *)
(***************************************************************************)
\* the upsert without ON DUPLICATE KEY UPDATE and without the unique keys
AppendArchive(db, call, t) ==
    [db EXCEPT
        !.archives = Append(db.archives,
                            [id |-> Len(db.archives) + 1, poll_id |-> call.poll,
                             final_rankings |-> call.final_rankings,
                             total_ballots |-> call.total_ballots,
                             season_year |-> db.polls[call.poll].season_year,
                             week_number |-> db.polls[call.poll].week_number]),
        !.polls = MarkArchived(db.polls, call.poll, t)]

\* the tables after conn.commit() of the call
CommitArchive(db, call, t) ==
    [db EXCEPT
        !.archives = InsertArchive(db.archives, db.polls[call.poll],
                                   call.final_rankings, call.total_ballots),
        !.polls = MarkArchived(db.polls, call.poll, t)]

\* poll = self.get_poll_by_id(poll_id); results = self.get_poll_results(poll_id)
ArchiveBegin(c, poll_id) ==
    /\ arc[c].pc = "idle"
    /\ IF get_poll_by_id(polls, poll_id) = <<>>
       THEN arc' = [arc EXCEPT ![c] = ArchiveIdle("false", FALSE)]
       ELSE arc' = [arc EXCEPT ![c] =
                [pc |-> "count", poll |-> poll_id,
                 final_rankings |->
                     FinalRankings(get_poll_results(votes, poll_id, tieOrder, probeRaises)),
                 total_ballots |-> 0, error |-> FALSE, result |-> "none"]]
    /\ UNCHANGED <<now, polls, ballots, votes, archives, tieOrder, probeRaises, ens,
                   voteStatus, submitted, runs>>
    /\ UNCHANGED csvVars

\* an exception inside get_poll_results: except Exception: results = [],
\* and archive_poll goes on
ArchiveBeginResultsError(c, poll_id) ==
    /\ arc[c].pc = "idle"
    /\ get_poll_by_id(polls, poll_id) # <<>>
    /\ arc' = [arc EXCEPT ![c] =
                [pc |-> "count", poll |-> poll_id,
                 final_rankings |-> FinalRankings(<<>>),
                 total_ballots |-> 0, error |-> TRUE, result |-> "none"]]
    /\ UNCHANGED <<now, polls, ballots, votes, archives, tieOrder, probeRaises, ens,
                   voteStatus, submitted, runs>>
    /\ UNCHANGED csvVars

\* SELECT COUNT(all) FROM creator_ballots WHERE poll_id = ..
ArchiveCount(c) ==
    /\ arc[c].pc = "count"
    /\ arc' = [arc EXCEPT ![c].pc = "commit",
                          ![c].total_ballots =
                              get_poll_ballot_count(ballots, arc[c].poll)]
    /\ UNCHANGED <<now, polls, ballots, votes, archives, tieOrder, probeRaises, ens,
                   voteStatus, submitted, runs>>
    /\ UNCHANGED csvVars

\* the upsert, the UPDATE and conn.commit(); return True
ArchiveCommit(c) ==
    /\ arc[c].pc = "commit"
    /\ LET db == CommitArchive(Db, arc[c], now)
       IN  /\ polls' = db.polls
           /\ archives' = db.archives
    /\ arc' = [arc EXCEPT ![c] = ArchiveIdle("ok", arc[c].error)]
    /\ UNCHANGED <<now, ballots, votes, tieOrder, probeRaises, ens, voteStatus,
                   submitted, runs>>
    /\ UNCHANGED csvVars

\* an exception in the COUNT, the upsert, the UPDATE or the commit:
\* conn.rollback(); raise e
ArchiveFail(c) ==
    /\ arc[c].pc \in {"count", "commit"}
    /\ arc' = [arc EXCEPT ![c] = ArchiveIdle("error", TRUE)]
    /\ UNCHANGED <<now, polls, ballots, votes, archives, tieOrder, probeRaises, ens,
                   voteStatus, submitted, runs>>
    /\ UNCHANGED csvVars

(***************************************************************************)
(* File backend: integrated_creator_system.py creator_vote on              *)
(* scripts/csv_ballot_storage.py.  save_ballot is remove_user_ballot (read *)
(* the file, write it back without the creator's rows) and then an append  *)
(* of the new rows: three file operations, between which other requests    *)
(* run and the process may die.                                            *)
(***************************************************************************)
\* ballot_data.append({'rank': rank, 'team_name': team_name, 'team_id': ''})
RECURSIVE CollectCreatorFrom(_, _)
CollectCreatorFrom(form, rank) ==
    IF rank > NumRanks THEN <<>>
    ELSE IF form[rank] # ""
         THEN <<[rank |-> rank, team_name |-> form[rank], team_id |-> ""]>>
                  \o CollectCreatorFrom(form, rank + 1)
         ELSE CollectCreatorFrom(form, rank + 1)

\* writer.writerow([user_id, user_type, rank, team_name, team_id, ...])
CsvRows(user_id, ballot_data) ==
    [k \in 1..Len(ballot_data) |->
        [user_id |-> user_id, rank |-> ballot_data[k].rank,
         team_name |-> ballot_data[k].team_name,
         team_id |-> ballot_data[k].team_id]]

\* rows_to_keep of remove_user_ballot
RowsToKeep(file, user_id) == SelectSeq(file, LAMBDA row : row.user_id # user_id)

\* the rows of one creator a reader of the file meets
CsvRowsOf(file, user_id) ==
    {file[i] : i \in {j \in 1..Len(file) : file[j].user_id = user_id}}

\* POST /creator/vote up to the end of the read in remove_user_ballot
CsvVote(u, form) ==
    /\ csvPc[u].pc = "idle"
    /\ LET ballot_data == CollectCreatorFrom(form, 1)
       IN  IF BallotIncomplete(ballot_data)
           THEN UNCHANGED csvPc
           ELSE csvPc' = [csvPc EXCEPT ![u] =
                    IF csvFile = <<>>
                    THEN [pc |-> "append", rows_to_keep |-> <<>>,
                          ballot_data |-> ballot_data]
                    ELSE [pc |-> "write", rows_to_keep |-> RowsToKeep(csvFile, u),
                          ballot_data |-> ballot_data]]
    /\ UNCHANGED <<csvFile, csvSaved>>
    /\ UNCHANGED sqlVars

\* with open(csv_file, 'w'): writer.writerows(rows_to_keep)
CsvRemoveWrite(u) ==
    /\ csvPc[u].pc = "write"
    /\ csvFile' = csvPc[u].rows_to_keep
    /\ csvPc' = [csvPc EXCEPT ![u].pc = "append", ![u].rows_to_keep = <<>>]
    /\ UNCHANGED csvSaved
    /\ UNCHANGED sqlVars

\* with open(csv_file, 'a'): one writerow per vote; return True
CsvAppend(u) ==
    /\ csvPc[u].pc = "append"
    /\ Len(csvFile) + Len(csvPc[u].ballot_data) <= MaxFileBallots * NumRanks
    /\ csvFile' = csvFile \o CsvRows(u, csvPc[u].ballot_data)
    /\ csvSaved' = [csvSaved EXCEPT ![u] = csvPc[u].ballot_data]
    /\ csvPc' = [csvPc EXCEPT ![u] = CsvIdle]
    /\ UNCHANGED sqlVars

\* the process dies inside save_ballot
CsvCrash(u) ==
    /\ csvPc[u].pc # "idle"
    /\ csvPc' = [csvPc EXCEPT ![u] = CsvIdle]
    /\ UNCHANGED <<csvFile, csvSaved>>
    /\ UNCHANGED sqlVars

(***************************************************************************)
(* Specifications of the MySQL backend.                                    *)
(*   Spec         requests run one at a time within the first week:        *)
(*                ensure, vote                                             *)
(*   SpecArchive  requests run one at a time within the first week, on its *)
(*                one poll: ensure, vote, archive_poll                     *)
(*   SpecWeek     requests for the current poll run one at a time, the     *)
(*                clock moves a day and a half a step; nobody votes        *)
(*   SpecPoll     two requests interleave inside                           *)
(*                ensure_current_poll_exists; the clock moves half a day a *)
(*                step; nobody votes                                       *)
(***************************************************************************)
\* the order in which the server lists the teams of equal avg_rank when no
\* result is ever sorted: any one
SomeOrder == {CHOOSE o \in TieOrders : TRUE}

Init == InitWith(SomeOrder)

Next ==
    \/ Tick(MinutesPerWeek, MinutesPerWeek)
    \/ EnsureCurrentPollExists("c1")
    \/ \E u \in Users, p \in PollIds, f \in Forms : Vote(u, p, f)
    \/ \E u \in Users, p \in PollIds, f \in Forms : VoteStorageError(u, p, f)

Spec == Init /\ [][Next]_vars

InitArchive == InitWith(TieOrders)

\* the forms that rank a team of load_cfb_teams at every rank
KnownForms == {f \in Forms : \A r \in 1..NumRanks : FindTeam(f[r]) # 0}

\* the first request for the current poll; in SpecArchive nobody asks again,
\* so one poll is voted on and archived
EnsureFirstPoll == Len(polls) = 0 /\ EnsureCurrentPollExists("c1")

NextArchive ==
    \/ Tick(MinutesPerWeek, MinutesPerWeek)
    \/ EnsureFirstPoll
    \/ \E u \in Users, p \in PollIds, f \in KnownForms : Vote(u, p, f)
    \/ \E p \in PollIds : ArchivePoll(p)

SpecArchive == InitArchive /\ [][NextArchive]_vars

\* two weeks of the season: the poll of week 1, the poll of week 2 whose
\* previous poll it is, ballots for both and archive_poll on either
RankedForms == {f \in KnownForms : \A r, q \in 1..NumRanks : f[r] = f[q] => r = q}

\* the poll of week 1 and the poll of week 2, each created once
EnsureWeeklyPoll ==
    /\ \A i \in 1..Len(polls) : polls[i].week_number # get_current_week(now)
    /\ EnsureCurrentPollExists("c1")

NextMove ==
    \/ Tick(MinutesPerWeek, 2 * MinutesPerWeek)
    \/ EnsureWeeklyPoll
    \/ \E p \in PollIds, f \in RankedForms : Vote("u1", p, f)
    \/ \E p \in PollIds : ArchivePoll(p)

SpecMove == Init /\ [][NextMove]_vars

\* one poll, ballots for it, and archive_poll run by two requests at once,
\* with the exceptions that may be raised inside submit_ballot and archive_poll
NextSweep ==
    \/ Tick(MinutesPerWeek, MinutesPerWeek)
    \/ EnsureFirstPoll
    \/ \E p \in PollIds, f \in RankedForms : Vote("u1", p, f)
    \/ \E p \in PollIds, f \in RankedForms : VoteStorageError("u1", p, f)
    \/ \E c \in Callers, p \in PollIds : ArchiveBegin(c, p)
    \/ \E c \in Callers, p \in PollIds : ArchiveBeginResultsError(c, p)
    \/ \E c \in Callers : ArchiveCount(c)
    \/ \E c \in Callers : ArchiveCommit(c)
    \/ \E c \in Callers : ArchiveFail(c)

SpecSweep == Init /\ [][NextSweep]_vars

\* polls of two seasons brought in by the migration, and archive_poll
NextSeasons ==
    \/ \E w \in MigratedWeeks, y \in MigratedSeasons : MigratePoll(w, y)
    \/ \E p \in PollIds : ArchivePoll(p)

SpecSeasons == Init /\ [][NextSeasons]_vars

\* one poll, ballots for it, and archive_poll run by requests beside them,
\* no exception raised
NextArchiveRace ==
    \/ Tick(MinutesPerWeek, MinutesPerWeek)
    \/ EnsureFirstPoll
    \/ \E p \in PollIds, f \in RankedForms : Vote("u1", p, f)
    \/ \E c \in Callers, p \in PollIds : ArchiveBegin(c, p)
    \/ \E c \in Callers : ArchiveCount(c)
    \/ \E c \in Callers : ArchiveCommit(c)

SpecArchiveRace == Init /\ [][NextArchiveRace]_vars

\* the clock alone, minute by minute, day by day and week by week, from the
\* day before the season until a week after its last week
ClockHorizon == (MaxWeek + 1) * MinutesPerWeek

NextClock ==
    \/ Tick(1, ClockHorizon)
    \/ Tick(MinutesPerDay, ClockHorizon)
    \/ Tick(MinutesPerWeek, ClockHorizon)

SpecClock == Init /\ [][NextClock]_vars

\* requests for the current poll run one at a time, any day of the first
\* week and the start of the second; the sweep archives ended polls
NextWeek ==
    \/ Tick(MinutesPerDay + MinutesPerDay \div 2, MinutesPerWeek + MinutesPerDay)
    \/ \E c \in Callers : EnsureCurrentPollExists(c)
    \/ ArchivePolls

SpecWeek == Init /\ [][NextWeek]_vars

NextPoll ==
    \/ Tick(MinutesPerDay + MinutesPerDay \div 2, MinutesPerWeek + MinutesPerDay)
    \/ \E c \in Callers : EnsureCheck(c)
    \/ \E c \in Callers : EnsureCreate(c)
    \/ ArchivePolls

SpecPoll == Init /\ [][NextPoll]_vars

\* the file backend: two creators save and resave, step by step; they rank
\* teams of the reference data, or leave the form empty
CsvForms == KnownForms \cup {[r \in 1..NumRanks |-> ""]}

NextCsv ==
    \/ \E u \in Users, f \in CsvForms : CsvVote(u, f)
    \/ \E u \in Users : CsvRemoveWrite(u)
    \/ \E u \in Users : CsvAppend(u)
    \/ \E u \in Users : CsvCrash(u)

SpecCsv == Init /\ [][NextCsv]_vars

\* the file backend with requests that all run to their end
NextCsvRace ==
    \/ \E u \in Users, f \in CsvForms : CsvVote(u, f)
    \/ \E u \in Users : CsvRemoveWrite(u)
    \/ \E u \in Users : CsvAppend(u)

SpecCsvRace == Init /\ [][NextCsvRace]_vars

(***************************************************************************)
(* Properties.                                                             *)
(***************************************************************************)
BallotRowsOf(poll_id, user_id) ==
    {i \in 1..Len(ballots) : ballots[i].poll_id = poll_id /\ ballots[i].user_id = user_id}

VotesOf(poll_id, user_id) ==
    {v \in votes : v.poll_id = poll_id /\ v.user_id = user_id}

\* the (rank, item_name) pairs of a ballot and of stored vote rows
BallotPairs(ballot_data) ==
    {<<ballot_data[k].rank, ballot_data[k].team_name>> : k \in 1..Len(ballot_data)}

VotePairs(rows) == {<<v.rank_position, v.team_name>> : v \in rows}

Voters(poll_id) == {u \in Users : submitted[<<poll_id, u>>] # <<>>}

\* C1: after any number of accepted submits by a voter to a poll the store
\* holds exactly one ballot row for (poll, voter), the row holds the last
\* submission, and the ballot count of the poll is the number of distinct
\* voters who submitted.
OneBallotRowPerVoter ==
    \A p \in PollIds :
        /\ \A u \in Voters(p) :
              /\ Cardinality(BallotRowsOf(p, u)) = 1
              /\ \A i \in BallotRowsOf(p, u) :
                    ballots[i].ballot_data = submitted[<<p, u>>]
        /\ get_poll_ballot_count(ballots, p) = Cardinality(Voters(p))

CsvReadNotTorn ==
    \A v \in Users :
        LET seen == CsvRowsOf(csvFile, v)
            old == CsvRowsOf(CsvRows(v, csvSaved[v]), v)
            new == CsvRowsOf(CsvRows(v, csvPc[v].ballot_data), v)
        IN  \/ seen = old
            \/ csvPc[v].pc # "idle" /\ seen = new

\* the form leaves a rank empty
RankMissing(form) == \E r \in 1..NumRanks : form[r] = ""

NamesUnknown(form) == \E r \in 1..NumRanks : form[r] # "" /\ FindTeam(form[r]) = 0

\* C5: a submit that names a team which is not in the reference data is
\* rejected and stores nothing: no ballot and no vote row is created or
\* changed.
UnknownItemRejected ==
    [][\A u \in Users, p \in PollIds, f \in Forms :
          (Vote(u, p, f) /\ get_poll_by_id(polls, p) # <<>> /\ NamesUnknown(f))
              => /\ voteStatus' # "ok"
                 /\ ballots' = ballots
                 /\ votes' = votes]_vars

\* C6: after any sequence of submits get_creator_ballot(poll, voter) returns
\* the (rank, item_name) pairs of the voter's last accepted submit to the
\* poll, and None exactly when the voter never submitted to it.
GetBallotReturnsLast ==
    \A p \in PollIds, u \in Users :
        \A got \in get_creator_ballot(ballots, p, u) :
            /\ BallotPairs(got) = BallotPairs(submitted[<<p, u>>])
            /\ got = <<>> <=> submitted[<<p, u>>] = <<>>

\* C7: however requests for the current poll and archival are ordered and
\* timed, there is at most one poll that is not archived per
\* (season_year, week_number).
OneOpenPollPerWeek ==
    \A i, j \in 1..Len(polls) :
        (/\ ~polls[i].is_archived
         /\ ~polls[j].is_archived
         /\ polls[i].season_year = polls[j].season_year
         /\ polls[i].week_number = polls[j].week_number) => i = j

\* the clock is inside the voting window of the current week, where a request
\* that runs alone finds the poll of the week
InWindow ==
    /\ get_current_week(now) > 0
    /\ now <= get_poll_start_end_times(get_current_week(now),
                                       get_current_season(now)).end

IsCurrent(i) ==
    /\ polls[i].week_number = get_current_week(now)
    /\ polls[i].season_year = get_current_season(now)

\* C8: when two requests run ensure_current_poll_exists at once for a week
\* that has no poll yet, one poll is created and both requests return it:
\* inside the voting window there is one poll of the current week, and the
\* requests that returned a poll of the current week returned the same one.
EnsureRaceOnePoll ==
    InWindow =>
        /\ Cardinality({i \in 1..Len(polls) : IsCurrent(i)}) <= 1
        /\ \A c, d \in Callers :
              (/\ ens[c].pc = "idle" /\ ens[c].result # 0 /\ IsCurrent(ens[c].result)
               /\ ens[d].pc = "idle" /\ ens[d].result # 0 /\ IsCurrent(ens[d].result))
                  => ens[c].result = ens[d].result

PollFlags(poll) == <<poll.is_active, poll.is_archived>>

\* C9: archive_poll(p) twice with no ballot change in between leaves the
\* archive row (final_rankings, total_ballots) and the poll's flags of the
\* first call, and the poll has one archive row, in every reachable state of
\* the tables, the second call running now or a day later.
ArchiveTwiceSame ==
    \A p \in 1..Len(polls) :
        \A later \in {now, now + MinutesPerDay} :
            LET once == archive_poll(Db, p, now)
                twice == archive_poll(once, p, later)
            IN  /\ twice.archives = once.archives
                /\ PollFlags(twice.polls[p]) = PollFlags(once.polls[p])
                /\ Cardinality(ArchiveRows(twice.archives, p)) = 1

\* archive_poll ran twice in a row on a poll with ballots, votes of two voters
\* and two ranked teams
WitnessArchivedTwice ==
    /\ runs.n = 2
    /\ \E i \in 1..Len(archives) :
          /\ archives[i].poll_id = runs.poll
          /\ archives[i].total_ballots >= 2
          /\ Len(archives[i].final_rankings) >= 2

\* C10: once poll p has an archive row no later operation changes its
\* final_rankings or total_ballots, a submit to p followed by another
\* archive_poll(p) included.
ArchiveImmutable ==
    [][\A i \in 1..Len(archives) :
          /\ archives'[i].final_rankings = archives[i].final_rankings
          /\ archives'[i].total_ballots = archives[i].total_ballots]_vars

(***************************************************************************)
(* Movement against an archived previous poll.                             *)
(***************************************************************************)
\* the tables after POST /vote/<poll_id> by u with the form
AfterVote(u, poll_id, form) ==
    LET answer == vote(Db, u, poll_id, form)
    IN  [Db EXCEPT !.ballots = answer.ballots, !.votes = answer.votes]

\* the ranks the archive row of the poll holds for the team
ArchivedRanks(poll_id, team_name) ==
    UNION {{archives[i].final_rankings[k].rank :
                k \in {l \in 1..Len(archives[i].final_rankings) :
                          archives[i].final_rankings[l].team_name = team_name}} :
           i \in ArchiveRows(archives, poll_id)}

\* C11: when the previous poll of a poll has an archive row, every entry of
\* the poll's movement results takes previous_rank from that row and
\* movement from it, and a ballot submitted to the previous poll afterwards
\* changes neither.
ArchivedMovementFrozen ==
    \A c \in 1..Len(polls) : \A prev \in PreviousOf(polls, c) :
        (prev # 0 /\ ArchiveRows(archives, prev) # {}) =>
            LET before == EnhancedResults(Db, c, prev)
            IN  /\ \A i \in 1..Len(before) :
                      /\ before[i].previous_rank =
                             ArchivedRanks(prev, before[i].team_name)
                      /\ before[i].movement =
                             {r - i : r \in ArchivedRanks(prev, before[i].team_name)}
                /\ \A u \in Users, f \in Forms :
                      LET after == EnhancedResults(AfterVote(u, prev, f), c, prev)
                      IN  /\ Len(after) = Len(before)
                          /\ \A i \in 1..Len(before) :
                                /\ after[i].team_name = before[i].team_name
                                /\ after[i].previous_rank = before[i].previous_rank
                                /\ after[i].movement = before[i].movement

\* the previous poll is archived with rankings, the current poll reports a
\* movement, and a late ballot to the previous poll reorders its live results
WitnessLateSubmitToArchived ==
    /\ ~probeRaises
    /\ \E c \in 1..Len(polls) : \E prev \in PreviousOf(polls, c) :
        /\ prev # 0
        /\ \E i \in ArchiveRows(archives, prev) : Len(archives[i].final_rankings) > 0
        /\ \E i \in 1..Len(EnhancedResults(Db, c, prev)) :
              EnhancedResults(Db, c, prev)[i].movement_type \in {"up", "down"}
        /\ \E u \in Users, f \in Forms, a \in ArchiveRows(archives, prev) :
              LET live == SelectResults(AfterVote(u, prev, f).votes, prev, tieOrder)
              IN  \E k \in 1..Len(live) :
                     /\ k <= Len(archives[a].final_rankings)
                     /\ live[k].team_name # archives[a].final_rankings[k].team_name

(***************************************************************************)
(* The archived flag and the archive row.                                  *)
(***************************************************************************)
\* C12: in every state, also while archive_poll calls are in flight and
\* after one of them raised and rolled back, a poll has is_archived = TRUE
\* exactly when poll_archives holds a row for it.
ArchivedIffArchiveRow ==
    \A i \in 1..Len(polls) :
        polls[i].is_archived <=> ArchiveRows(archives, i) # {}

\* one archive_poll call raised and rolled back, another one committed
WitnessArchiveRolledBack ==
    /\ \E c \in Callers : arc[c].result = "error"
    /\ \E i \in 1..Len(polls) :
          polls[i].is_archived /\ ArchiveRows(archives, i) # {}

(***************************************************************************)
(* The archival sweep.                                                     *)
(***************************************************************************)
\* C13: a run of the sweep at time now archives a poll exactly when its
\* end_date is before now, it is not archived yet and it is not the current
\* poll.
SweepArchivesEnded ==
    \A cur \in get_current_poll(polls, now) :
        LET after == archive_polls(Db, cur, now)
        IN  \A i \in 1..Len(polls) :
                (after.polls[i].is_archived /\ ~polls[i].is_archived)
                    <=> (polls[i].end_date < now /\ ~polls[i].is_archived /\ i # cur)

(***************************************************************************)
(* Aggregation.                                                            *)
(***************************************************************************)
PollVotes(poll_id) == {v \in votes : v.poll_id = poll_id}

VotedNames(poll_id) == {v.team_name : v \in PollVotes(poll_id)}

\* C14: get_poll_results returns exactly one entry for every team_name with
\* a vote row in the poll and none for any other, with vote_count the
\* number of the team's rows and avg_rank their mean (to four decimals),
\* in ascending avg_rank; a poll with a vote row has a non-empty result.
AggregateExact ==
    \A p \in 1..Len(polls) :
        LET entries == get_poll_results(votes, p, tieOrder, probeRaises)
        IN  /\ Len(entries) = Cardinality(VotedNames(p))
            /\ \A n \in VotedNames(p) : \E i \in 1..Len(entries) :
                  LET rows == {v \in PollVotes(p) : v.team_name = n}
                  IN  /\ entries[i].team_name = n
                      /\ entries[i].vote_count = Cardinality(rows)
                      /\ 2 * entries[i].avg_rank * Cardinality(rows)
                             - 2 * AvgScale * SumRanks(rows) \in
                                 (1 - Cardinality(rows))..Cardinality(rows)
            /\ \A i, j \in 1..Len(entries) :
                  i < j => entries[i].avg_rank <= entries[j].avg_rank
            /\ PollVotes(p) # {} => Len(entries) > 0

\* C15: the list get_poll_results returns is fixed by the vote rows alone:
\* whatever order the server takes for rows of equal avg_rank, the same
\* entries come back in the same order.
TieBreakFixed ==
    \A p \in 1..Len(polls) : \A o \in TieOrders :
        SelectResults(votes, p, o) = SelectResults(votes, p, tieOrder)

(***************************************************************************)
(* Movement arithmetic.                                                    *)
(***************************************************************************)
\* the rank of the team in the previous rankings: the archived rank when the
\* previous poll has an archive row, its position in the live results
\* otherwise; empty when there is no previous poll or the team is not ranked
RankInPrevious(prev, team_name) ==
    IF prev = 0 THEN {}
    ELSE IF ArchiveRows(archives, prev) # {} THEN ArchivedRanks(prev, team_name)
    ELSE LET previous_results == get_poll_results(votes, prev, tieOrder, probeRaises)
         IN  {k \in 1..Len(previous_results) :
                 previous_results[k].team_name = team_name}

\* C16: the entry at position r of the movement results is the entry at
\* position r of the poll's results and has rank r; for a team of rank p in
\* the previous rankings movement is p - r and movement_type is up, down or
\* same as movement is positive, negative or zero; with no previous poll or
\* no previous rank movement is None and movement_type is new.
MovementIsRankDifference ==
    \A c \in 1..Len(polls) : \A prev \in PreviousOf(polls, c) :
        LET enhanced == EnhancedResults(Db, c, prev)
            current == get_poll_results(votes, c, tieOrder, probeRaises)
        IN  /\ Len(enhanced) = Len(current)
            /\ \A r \in 1..Len(enhanced) :
                  LET P == RankInPrevious(prev, current[r].team_name)
                  IN  /\ enhanced[r].rank = r
                      /\ enhanced[r].team_name = current[r].team_name
                      /\ enhanced[r].previous_rank = P
                      /\ P = {} => /\ enhanced[r].movement = {}
                                   /\ enhanced[r].movement_type = "new"
                      /\ \A p \in P :
                            /\ enhanced[r].movement = {p - r}
                            /\ p - r > 0 => enhanced[r].movement_type = "up"
                            /\ p - r < 0 => enhanced[r].movement_type = "down"
                            /\ p - r = 0 => enhanced[r].movement_type = "same"

\* a poll whose results hold a team that moved up and a team that moved down
\* against the live results of the previous poll
WitnessMovedUpAndDown ==
    \E c \in 1..Len(polls) : \E prev \in PreviousOf(polls, c) :
        /\ prev # 0
        /\ ArchiveRows(archives, prev) = {}
        /\ \E r, q \in 1..Len(EnhancedResults(Db, c, prev)) :
              /\ EnhancedResults(Db, c, prev)[r].movement_type = "up"
              /\ EnhancedResults(Db, c, prev)[q].movement_type = "down"

(***************************************************************************)
(* The results page.                                                       *)
(***************************************************************************)
\* C17: for a poll with n voted team names the page lists the first
\* min(TopRanked, n) entries of the movement results as rankings and the
\* other max(n - TopRanked, 0) as others_receiving_votes, every voted team
\* is in exactly one of the two lists, and the entries of
\* others_receiving_votes have team_name and vote_count but no rank and no
\* movement.
ResultsSplit ==
    \A p \in 1..Len(polls) : \A prev \in PreviousOf(polls, p) :
        LET page == results(Db, p, prev)
            enhanced == EnhancedResults(Db, p, prev)
            n == Cardinality(VotedNames(p))
        IN  /\ Len(page.rankings) = Min(TopRanked, n)
            /\ Len(page.others_receiving_votes) = Max(n - TopRanked, 0)
            /\ \A i \in 1..Len(page.rankings) :
                  /\ page.rankings[i].team_name = enhanced[i].team_name
                  /\ page.rankings[i].rank = enhanced[i].rank
                  /\ page.rankings[i].movement = enhanced[i].movement
            /\ \A i \in 1..Len(page.others_receiving_votes) :
                  /\ page.others_receiving_votes[i].team_name =
                         enhanced[Len(page.rankings) + i].team_name
                  /\ page.others_receiving_votes[i].vote_count =
                         enhanced[Len(page.rankings) + i].vote_count
                  /\ {"rank", "movement", "movement_type", "previous_rank"}
                         \cap DOMAIN page.others_receiving_votes[i] = {}
            /\ \A t \in VotedNames(p) :
                  Cardinality({i \in 1..Len(page.rankings) :
                                  page.rankings[i].team_name = t})
                  + Cardinality({i \in 1..Len(page.others_receiving_votes) :
                                  page.others_receiving_votes[i].team_name = t}) = 1

(***************************************************************************)
(* Submits by distinct voters.                                             *)
(***************************************************************************)
\* C18: when every submit has run to its end, whatever the interleaving, the
\* rows the file holds for each voter are the rows of that voter's own last
\* submission: no submit has removed or altered another voter's ballot and
\* none is lost.
CsvEachVoterKeepsLast ==
    (\A u \in Users : csvPc[u].pc = "idle") =>
        \A u \in Users :
            SelectSeq(csvFile, LAMBDA row : row.user_id = u)
                = CsvRows(u, csvSaved[u])

(***************************************************************************)
(* Concurrent archive_poll calls.                                          *)
(***************************************************************************)
\* the call has made its reads and no ballot has changed since: what it
\* read is what a call starting now would read
ReadsCurrent(c) ==
    /\ arc[c].pc = "commit"
    /\ arc[c].final_rankings =
           FinalRankings(get_poll_results(votes, arc[c].poll, tieOrder, probeRaises))
    /\ arc[c].total_ballots = get_poll_ballot_count(ballots, arc[c].poll)

\* the same archive rows and, for every poll, the same flags
SameArchiveState(a, b) ==
    /\ a.archives = b.archives
    /\ Len(a.polls) = Len(b.polls)
    /\ \A i \in 1..Len(a.polls) : PollFlags(a.polls[i]) = PollFlags(b.polls[i])

\* C19: archive_poll calls for one poll that run at the same time with no
\* ballot change leave, whether one commits or both commit one after the
\* other, what a single call leaves: one archive row for the poll with the
\* same content, and the poll archived and not active.
ConcurrentArchiveAsSingle ==
    \A c \in Callers : ReadsCurrent(c) =>
        LET single == archive_poll(Db, arc[c].poll, now)
            one == CommitArchive(Db, arc[c], now)
        IN  /\ SameArchiveState(one, single)
            /\ Cardinality(ArchiveRows(one.archives, arc[c].poll)) = 1
            /\ PollFlags(one.polls[arc[c].poll]) = <<FALSE, TRUE>>
            /\ \A d \in Callers \ {c} :
                  (ReadsCurrent(d) /\ arc[d].poll = arc[c].poll) =>
                      SameArchiveState(CommitArchive(one, arc[d], now), single)

\* two calls for the same poll have both read its rankings and neither has
\* committed
WitnessTwoArchivesInFlight ==
    \E c, d \in Callers :
        /\ c # d
        /\ ReadsCurrent(c) /\ ReadsCurrent(d)
        /\ arc[c].poll = arc[d].poll
        /\ Len(arc[c].final_rankings) > 0
        /\ arc[c].total_ballots > 0

(***************************************************************************)
(* Exceptions inside submit_ballot and archive_poll.                       *)
(***************************************************************************)
\* C20: a step that ends a submit or an archive_poll call in which an
\* exception was raised leaves creator_polls, creator_ballots,
\* creator_votes and poll_archives as they were.
StorageErrorAborts ==
    [][(\/ voteStatus # "error" /\ voteStatus' = "error"
        \/ \E c \in Callers : /\ arc[c].pc # "idle"
                              /\ arc'[c].pc = "idle"
                              /\ arc'[c].error)
          => UNCHANGED <<polls, ballots, votes, archives>>]_vars

(***************************************************************************)
(* Storage failures as the caller sees them.                               *)
(***************************************************************************)
\* C21: a storage failure inside get_poll_results, inside
\* get_poll_ballot_count or inside the home page's reading of both reaches
\* the caller as a raised error, never as an empty ranking or a count of 0.
StorageFailureRaised ==
    \A p \in 1..Len(polls) : \A failure \in StorageFailures :
        /\ GetPollResultsOutcome(Db, p, failure).raised
        /\ GetPollBallotCountOutcome(Db, p, failure).raised
        /\ HomeOutcome(Db, p, failure).raised

(***************************************************************************)
(* The previous poll.                                                      *)
(***************************************************************************)
\* the polls that are the previous poll of a poll of the week and season:
\* those of the week before in the same season, or for week 1 those of the
\* highest week of the season before, archived or not
PreviousExpected(week_number, season_year) ==
    IF week_number > 1
    THEN {i \in 1..Len(polls) : /\ polls[i].season_year = season_year
                                /\ polls[i].week_number = week_number - 1}
    ELSE LET before == {i \in 1..Len(polls) : polls[i].season_year = season_year - 1}
         IN  {i \in before : \A j \in before :
                                polls[j].week_number <= polls[i].week_number}

\* C22: for every poll, get_previous_week_poll returns a poll of the week
\* before in the same season, or for week 1 a poll of the highest week of
\* the season before, whether or not it is archived, and returns None only
\* when there is no such poll.
PreviousIsWeekBefore ==
    \A c \in 1..Len(polls) :
        LET found == get_previous_week_poll(polls, polls[c].week_number,
                                            polls[c].season_year)
            expected == PreviousExpected(polls[c].week_number, polls[c].season_year)
        IN  /\ found \subseteq expected
            /\ found = {} => expected = {}

(***************************************************************************)
(* The week of the season.                                                 *)
(***************************************************************************)
WeeksSinceStart == (now - get_season_start_datetime) \div MinutesPerWeek

CreatedInsideWindow ==
    \A i \in 1..Len(polls) :
        /\ polls[i].start_date <= polls[i].created_at
        /\ polls[i].created_at <= polls[i].end_date
        /\ \A j \in 1..(i - 1) :
              ~(/\ polls[j].week_number = polls[i].week_number
                /\ polls[j].season_year = polls[i].season_year)

\* C25: when ensure_current_poll_exists has returned a poll, every other
\* poll that is not archived has is_active = FALSE.
EnsureLeavesOneActive ==
    [][\A c \in Callers :
          (ens'[c] # ens[c] /\ ens'[c].pc = "idle" /\ ens'[c].result # 0) =>
              \A i \in 1..Len(polls') :
                  (i # ens'[c].result /\ ~polls'[i].is_archived)
                      => ~polls'[i].is_active]_vars

(***************************************************************************)
(* The archive row and the ballot store.                                   *)
(***************************************************************************)
\* creator_ballots after its first k inserts
BallotsUpTo(k) == SubSeq(ballots, 1, k)

\* creator_votes when creator_ballots was bs: the rows of each creator's
\* last ballot for each poll
VotesWhen(bs) ==
    UNION {VoteRowsOf(bs[i].poll_id, bs[i].user_id, bs[i].ballot_data) :
              i \in {j \in 1..Len(bs) :
                        \A k \in (j + 1)..Len(bs) :
                            ~(bs[k].poll_id = bs[j].poll_id /\ bs[k].user_id = bs[j].user_id)}}

\* C26: every archive row holds the rankings and the ballot count of one
\* and the same state of the ballot store: there is a moment in the history
\* of creator_ballots whose results are the row's final_rankings, with ranks
\* 1..n in that order, and whose count is the row's total_ballots, also
\* when ballots were submitted while archive_poll was running.
ArchiveFromOneState ==
    \A a \in 1..Len(archives) : \E k \in 0..Len(ballots) :
        /\ archives[a].total_ballots =
               get_poll_ballot_count(BallotsUpTo(k), archives[a].poll_id)
        /\ archives[a].final_rankings =
               FinalRankings(get_poll_results(VotesWhen(BallotsUpTo(k)),
                                              archives[a].poll_id, tieOrder, probeRaises))

LifecycleMovesForward ==
    [][/\ Len(polls') >= Len(polls)
       /\ \A i \in 1..Len(polls) :
             /\ polls'[i].id = polls[i].id
             /\ polls[i].is_archived =>
                    polls'[i].is_archived /\ ~polls'[i].is_active
             /\ polls'[i].is_archived => ~polls'[i].is_active
             /\ ~polls[i].is_active => ~polls'[i].is_active]_vars

\* a poll was archived, a later poll was created after that, and the
\* archived poll has taken a ballot since
WitnessArchivedThenLaterPoll ==
    \E p \in 1..Len(polls) : \E q \in 1..Len(polls) : \E a \in ArchiveRows(archives, p) :
        /\ polls[p].is_archived /\ ~polls[p].is_active
        /\ \E t \in polls[p].archived_at : polls[q].created_at > t
        /\ polls[q].is_active
        /\ archives[a].total_ballots < get_poll_ballot_count(ballots, p)

(***************************************************************************)
(* Vote counts and the ballot count.                                       *)
(***************************************************************************)
\* C29: no entry of get_poll_results counts more votes than the poll has
\* ballots: vote_count is at most get_poll_ballot_count.
VoteCountWithinBallots ==
    \A p \in 1..Len(polls) :
        LET entries == get_poll_results(votes, p, tieOrder, probeRaises)
        IN  \A i \in 1..Len(entries) :
                entries[i].vote_count <= get_poll_ballot_count(ballots, p)

(***************************************************************************)
(* Movement over an unchanged set of teams.                                *)
(***************************************************************************)
RECURSIVE SumMovement(_, _)
\* the movements of the first k entries added up (None counts 0)
SumMovement(enhanced, k) ==
    IF k = 0 THEN 0
    ELSE SumMovement(enhanced, k - 1)
             + (IF enhanced[k].movement = {} THEN 0
                ELSE CHOOSE m \in enhanced[k].movement : TRUE)

\* the team names of the previous rankings get_poll_results_with_movement
\* reads for previous_poll (0 for None)
PreviousNames(previous_poll) ==
    IF previous_poll = 0 THEN {} ELSE DOMAIN PreviousRankings(Db, previous_poll)

\* C30: when the previous rankings and the current results hold the same
\* set of team names, the movements of get_poll_results_with_movement add
\* up to zero and no entry has movement_type new.
SameTeamsMovementSumsToZero ==
    \A c \in 1..Len(polls) : \A prev \in PreviousOf(polls, c) :
        LET enhanced == EnhancedResults(Db, c, prev)
        IN  PreviousNames(prev) = {enhanced[i].team_name : i \in 1..Len(enhanced)}
                => /\ SumMovement(enhanced, Len(enhanced)) = 0
                   /\ \A i \in 1..Len(enhanced) :
                         /\ enhanced[i].movement_type # "new"
                         /\ enhanced[i].movement # {}

\* a poll whose results hold the teams of the archived rankings of the
\* previous poll, more than one of them, not all at their archived rank
WitnessSameTeamsReordered ==
    \E c \in 1..Len(polls) : \E prev \in PreviousOf(polls, c) :
        LET enhanced == EnhancedResults(Db, c, prev)
        IN  /\ prev # 0
            /\ ArchiveRows(archives, prev) # {}
            /\ Len(enhanced) > 1
            /\ PreviousNames(prev) = {enhanced[i].team_name : i \in 1..Len(enhanced)}
            /\ \E i \in 1..Len(enhanced) : enhanced[i].movement_type = "up"
====
